---- MODULE Spec2Model ----
(***************************************************************************)
(* Signal ingestion and trade orchestration of the copy-trading bot        *)
(* (class Bot of src/bot.js, latest revision: src/unnamed/part_002 lines   *)
(* 1-396; class SessionLog of src/src/logger.js).                          *)
(*                                                                         *)
(* One cooperative event loop runs: the log-stream message handler, the    *)
(* registry reload callback, the 50 ms scheduler callback of runWorker     *)
(* and the continuations of the jobs it awaits.  Every action below is one *)
(* run-to-completion step of that loop: from a callback's entry, or from   *)
(* the resumption after an await, up to the next await or the return.      *)
(***************************************************************************)
EXTENDS Integers, Sequences, FiniteSets, TLC

\* ------------------------------------------------------------------ bounds
\* cfg.maxInFlight (10 in the source), scaled down.
maxInFlight == 2
\* this.seenMax (5000 in the source), scaled down.
seenMax == 1
\* Number of notifications that reach the dedupe check of the stream handler in
\* one behaviour.
MaxObserved == 3

\* One more signature than the SeenSet holds, so that eviction happens.
Sigs == 1..(seenMax + 1)
Wallets == {"w1", "w2"}

\* ------------------------------------------------------------ wallet rules
\* rules objects of the wallets file; 0 stands for an absent (or zero) number
\* where the code reads the field with "|| default", -1 for an absent
\* trade_frequency (read with a bare comparison).  USD amounts are in cents,
\* rates in tenths.
EmptyRules ==
    [success_rate |-> 0, isCreator |-> FALSE, est_buy_size_usd |-> 0,
     min_buy_usd |-> 0, trade_frequency |-> -1, tp_multiple |-> 0,
     avg_hold_seconds |-> 0]
RateRules(rate) == [EmptyRules EXCEPT !.success_rate = rate]
CreatorRules == [EmptyRules EXCEPT !.isCreator = TRUE]

\* ------------------------------------------------------------ wallet loader
\* The text of the wallets file is a sequence of lines, a line a sequence of
\* tokens: a word (an address or a name), a comma, a brace, or one
\* "key":value member of a JSON object (true is written 1, multiples are in
\* basis points).  Blanks are left out: the loader trims them away.
Word(s) == <<"word", s>>
Comma == <<"comma">>
Open == <<"open">>
Close == <<"close">>
Member(k, v) == <<"member", k, v>>

\* line.split(','): the pieces between the commas.
RECURSIVE Split(_)
Split(line) ==
    IF \A k \in DOMAIN line : line[k] # Comma
    THEN <<line>>
    ELSE LET i == CHOOSE k \in DOMAIN line :
                      line[k] = Comma /\ \A j \in 1..(k - 1) : line[j] # Comma
         IN <<SubSeq(line, 1, i - 1)>> \o Split(SubSeq(line, i + 1, Len(line)))

\* The rules object with one member set; a member the bot never reads is
\* not kept.
SetMember(rules, m) ==
    CASE m[2] = "success_rate" -> [rules EXCEPT !.success_rate = m[3]]
      [] m[2] = "isCreator" -> [rules EXCEPT !.isCreator = (m[3] # 0)]
      [] m[2] = "est_buy_size_usd" -> [rules EXCEPT !.est_buy_size_usd = m[3]]
      [] m[2] = "min_buy_usd" -> [rules EXCEPT !.min_buy_usd = m[3]]
      [] m[2] = "trade_frequency" -> [rules EXCEPT !.trade_frequency = m[3]]
      [] m[2] = "tp_multiple" -> [rules EXCEPT !.tp_multiple = m[3]]
      [] m[2] = "avg_hold_seconds" -> [rules EXCEPT !.avg_hold_seconds = m[3]]
      [] OTHER -> rules

RECURSIVE Members(_, _)
Members(inner, rules) ==
    IF inner = <<>> THEN rules
    ELSE Members(SubSeq(inner, 3, Len(inner)), SetMember(rules, Head(inner)))

\* JSON.parse of a piece of text: an object is a brace, members with a comma
\* between each two, and the closing brace; anything else throws.
JsonParse(text) ==
    LET inner == SubSeq(text, 2, Len(text) - 1)
        ok == /\ Len(text) >= 2
              /\ text[1] = Open
              /\ text[Len(text)] = Close
              /\ inner = <<>> \/ Len(inner) % 2 = 1
              /\ \A k \in DOMAIN inner :
                     inner[k][1] = (IF k % 2 = 1 THEN "member" ELSE "comma")
    IN [ok |-> ok, value |-> IF ok THEN Members(inner, EmptyRules) ELSE EmptyRules]

\* The text of a line after its second comma, as the format documents the
\* rules: the whole JSON object.
RulesText(line) ==
    LET pieces == Split(line)
    IN SubSeq(line, Len(pieces[1]) + Len(pieces[2]) + 3, Len(line))

\* const [addr, nameRaw, rulesRaw] = line.split(','): the third piece alone.
RulesRaw(line) == LET pieces == Split(line) IN IF Len(pieces) >= 3 THEN pieces[3] ELSE <<>>

\* The rules one line yields: {} unless the piece parses.
LineRules(line) ==
    LET rulesRaw == RulesRaw(line)
    IN IF rulesRaw # <<>> /\ JsonParse(rulesRaw).ok THEN JsonParse(rulesRaw).value
       ELSE EmptyRules

Addr(line) == LET addr == Split(line)[1] IN IF addr = <<>> THEN "" ELSE addr[1][2]

\* The loop of load(): blank lines are filtered out, a line without an
\* address is skipped, a later line of an address replaces the earlier one.
RECURSIVE LoadLines(_, _)
LoadLines(lines, map) ==
    IF lines = <<>> THEN map
    ELSE LET line == Head(lines)
         IN IF line = <<>> \/ Addr(line) = ""
            THEN LoadLines(Tail(lines), map)
            ELSE LoadLines(Tail(lines),
                           [a \in DOMAIN map \cup {Addr(line)} |->
                               IF a = Addr(line) THEN LineRules(line) ELSE map[a]])

NoWallets == [w \in {} |-> EmptyRules]
LoadMap(txt) == LoadLines(txt, NoWallets)

Line(addr, name, member) == <<Word(addr), Comma, Word(name), Comma, Open, member, Close>>
FileCreator == <<Line("w1", "n1", Member("isCreator", 1))>>
FileRated ==
    <<Line("w1", "n1", Member("success_rate", 3)), <<>>,
      Line("w2", "n2", Member("success_rate", 8))>>
\* The first example of the loader's comment.
FileDocumented ==
    <<<<Word("w1"), Comma, Word("TraderAlpha"), Comma, Open, Member("tp_multiple", 14000),
        Comma, Member("avg_hold_seconds", 22), Comma, Member("min_buy_usd", 15000), Close>>>>
FileEmpty == <<>>
\* The rated file with the two rates exchanged.
FileSwapped ==
    <<Line("w1", "n1", Member("success_rate", 8)),
      Line("w2", "n2", Member("success_rate", 3))>>
\* w1 has rules without a success_rate; w2 is rated.
FileUnrated ==
    <<Line("w1", "n1", Member("avg_hold_seconds", 22)),
      Line("w2", "n2", Member("success_rate", 8))>>
\* w1 is gone from the file; w2 is rated.
FileLone == <<Line("w2", "n2", Member("success_rate", 8))>>
Files == {FileCreator, FileRated}
StreamFiles == Files \cup {FileEmpty, FileDocumented}
SortFiles == {FileUnrated, FileLone}
SwapFiles == {FileRated, FileSwapped}

\* The maps the wallet loader can deliver (address -> rules).
Snapshots == {LoadMap(txt) : txt \in Files}

\* The map the loader delivers for each file the watcher can read, worked out
\* once per file.
Delivered == [txt \in Files \cup StreamFiles \cup SortFiles \cup SwapFiles |-> LoadMap(txt)]

VARIABLES
    gate,           \* the inputs and the outcome of a job's path decision
    sim,            \* the SimulatedAdapterV2 instance and the results of its last buy and sell
    quote,          \* the arguments and results of the PricingMath calls
    last,           \* the loader's last: the text of the wallets file it read last
    tracked,        \* this.tracked: Map address -> {name, rules}
    wsOpen,         \* the log stream is connected
    seen,           \* this.seen, in insertion order
    queue,          \* this.queue
    executedMints,  \* this.executedMints
    inFlight,       \* this.inFlight
    ticks,          \* the invocations of the scheduler callback awaiting a job
    trades,         \* this.log.trades
    nextId,         \* this.log.nextId
    execution,      \* the constructor's execution option: which adapter this.exec is
    proc,           \* the process: "running", "crashed" (uncaught error) or "exited"
    timers,         \* the timers that are set: worker, latency, watcher, reconnect
    sent,           \* the logsSubscribe requests of the last subscribeAll on this.ws
    opens,          \* history: how often the log stream has opened (0, 1, more)
    atClose,        \* history: the timers still set when shutdown closed the stream
    link,           \* the log stream's sockets not yet closed and its reconnect timers not yet fired
    observed,       \* history: per signature, notifications that reached the dedupe check
    enqueued,       \* history: per signature, Signals pushed on the queue
    dispatched,     \* history: per signature, calls of handleSignal (0, 1, more)
    settled         \* history: the job the last step completed, if it completed one

vars == <<gate, sim, quote, last, tracked, wsOpen, seen, queue, executedMints, inFlight, ticks, trades,
          nextId, execution, proc, timers, sent, opens, atClose, link, observed, enqueued,
          dispatched, settled>>

\* What the scheduler and the jobs never touch.
life == <<execution, proc, timers, sent, opens, atClose, link>>

Range(s) == {s[k] : k \in DOMAIN s}

\* A queue entry {type:'signal', wallet, sig, tDetect}; n tells the entries of
\* one signature apart, as tDetect does.
Signal(sig, wallet, n) == [sig |-> sig, wallet |-> wallet, n |-> n]

\* A suspended callback invocation is a record: pc, the await its job is at;
\* job, with the rules it captured; jobs, the rest of its batch.  History:
\* quota, the in-flight slots free when the batch was drained less the jobs
\* admitted from it (not counted below -1); lastKey, the sort key of the job
\* admitted last; member, the job's wallet was in the registry when the job
\* started; solUsd, the SOL price the job sized its buy with (0 before that).

\* The value of settled: result is "ok" or "skip" (handleSignal returned) or
\* "throw" (it rejected); recorded, the trades the job appended; bought, the
\* job had called exec.buy.
None == [result |-> "none", recorded |-> 0, bought |-> FALSE]

\* ------------------------------------------------------- stream ingestion
\* this.seen.has(signature)
HasNever(s, sig) == FALSE
Has(s, sig) == sig \in Range(s)

\* if (this.seen.size > this.seenMax) this.seen = new Set(Array.from(this.seen).slice(-this.seenMax))
PruneNone(s) == s
PruneHead(s) == IF Len(s) > seenMax THEN SubSeq(s, 1, seenMax) ELSE s
Prune(s) == IF Len(s) > seenMax THEN SubSeq(s, Len(s) - seenMax + 1, Len(s)) ELSE s

Bump(f, s) == [f EXCEPT ![s] = @ + 1]
BumpTo2(f, s) == [f EXCEPT ![s] = IF @ < 2 THEN @ + 1 ELSE @]

\* Signatures are opaque and interchangeable: the stream numbers them in the
\* order in which they first reach the dedupe check.
Fresh(sig) == IF sig = 1 THEN TRUE ELSE observed[sig - 1] > 0

\* Notifications that have reached the dedupe check so far.
RECURSIVE SumTo(_, _)
SumTo(f, n) == IF n = 0 THEN 0 ELSE f[n] + SumTo(f, n - 1)
Observations == SumTo(observed, seenMax + 1)

\* The frames of the log stream.  parsed = FALSE: JSON.parse rejects the frame,
\* or it is a logsNotification without params.result (the destructuring
\* throws).  Otherwise signature, mentions (logs includes PUMP_FUN_PROGRAM) and
\* subscription are read from it; a message that is no logsNotification is
\* passed over like one that does not mention the program.  err is the err
\* member of params.result, set for a failed transaction: the handler
\* destructures signature and logs only.
Frame(parsed, sig, mentions, sub) ==
    [parsed |-> parsed, signature |-> sig, mentions |-> mentions, subscription |-> sub,
     err |-> FALSE]
Frames ==
    {Frame(FALSE, 1, FALSE, "w1"), Frame(TRUE, 1, FALSE, "w1")}
        \cup {Frame(TRUE, sig, TRUE, sub) : sig \in Sigs, sub \in Wallets}

\* Notifications of failed transactions that mention the program.
FailedFrames == {[Frame(TRUE, sig, TRUE, sub) EXCEPT !.err = TRUE] : sig \in Sigs, sub \in Wallets}

\* What the message handler does with a frame: the JSON.parse or the
\* destructuring throws (malformed), the logs do not mention the program
\* (ignored), the signature is in the SeenSet (duplicate); otherwise the
\* signature is inserted, and the frame is dropped when its subscription is not a
\* tracked wallet (untracked) or pushed on the queue (signal).
Outcome(frame) ==
    IF ~frame.parsed THEN "malformed"
    ELSE IF ~frame.mentions THEN "ignored"
    ELSE IF Has(seen, frame.signature) THEN "duplicate"
    ELSE IF frame.subscription \notin DOMAIN tracked THEN "untracked"
    ELSE "signal"

\* this.seen.add(signature) and the prune
SeenAfter(frame) ==
    IF Outcome(frame) \in {"untracked", "signal"}
    THEN Prune(Append(seen, frame.signature))
    ELSE seen

\* this.queue.push({type: 'signal', wallet, sig, tDetect})
QueueAfter(frame) ==
    IF Outcome(frame) = "signal"
    THEN Append(queue, Signal(frame.signature, frame.subscription,
                              enqueued[frame.signature] + 1))
    ELSE queue

\* catch (e) { console.error('[ws] parse error:', e.message) }: the error of a
\* malformed frame stays in the handler.
OnParseErrorUncaught(p) == "crashed"
OnParseError(p) == p

ProcAfter(frame) == IF Outcome(frame) = "malformed" THEN OnParseError(proc) ELSE proc

\* ws.on('message'): one frame, handled to the end (the handler has no await).
OnMessage(frame) ==
    LET sig == frame.signature
        deduped == Outcome(frame) \in {"duplicate", "untracked", "signal"}
    IN
    /\ proc = "running"
    /\ wsOpen
    /\ Fresh(sig)
    /\ deduped => Observations < MaxObserved
    /\ observed' = IF deduped THEN Bump(observed, sig) ELSE observed
    /\ seen' = SeenAfter(frame)
    /\ queue' = QueueAfter(frame)
    /\ enqueued' = IF Outcome(frame) = "signal" THEN Bump(enqueued, sig) ELSE enqueued
    /\ proc' = ProcAfter(frame)
    /\ settled' = None
    /\ UNCHANGED <<gate, sim, quote, last, tracked, wsOpen, executedMints, inFlight, ticks, trades, nextId,
                   execution, timers, sent, opens, atClose, link, dispatched>>

\* subscribeAll(): one logsSubscribe request for each address of this.tracked
NoRequests == [w \in {} |-> 0]
SubscribeTwice(t) == [w \in DOMAIN t |-> 2]
SubscribeAll(t) == [w \in DOMAIN t |-> 1]

\* ws.on('close') of the current socket, open or still connecting:
\* setTimeout(() => this.startWebSocket(), 3000)
OnClose ==
    /\ proc = "running"
    /\ link.sockets > 0
    /\ wsOpen' = FALSE
    /\ timers' = timers \cup {"reconnect"}
    /\ link' = [sockets |-> link.sockets - 1, reconnects |-> link.reconnects + 1]
    /\ sent' = NoRequests
    /\ settled' = None
    /\ UNCHANGED <<gate, sim, quote, last, tracked, seen, queue, executedMints, inFlight, ticks, trades, nextId,
                   execution, proc, opens, atClose, observed, enqueued, dispatched>>

\* The reconnect timer fires: startWebSocket() makes a new socket, connecting.
Reconnect ==
    /\ proc = "running"
    /\ link.reconnects > 0
    /\ timers' = IF link.reconnects = 1 THEN timers \ {"reconnect"} ELSE timers
    /\ link' = [sockets |-> link.sockets + 1, reconnects |-> link.reconnects - 1]
    /\ settled' = None
    /\ UNCHANGED <<gate, sim, quote, last, tracked, wsOpen, seen, queue, executedMints, inFlight, ticks, trades,
                   nextId, execution, proc, sent, opens, atClose, observed, enqueued,
                   dispatched>>

\* An error handler that retries as the close handler does.
OnErrorRetries ==
    /\ proc = "running"
    /\ link.sockets > 0
    /\ timers' = timers \cup {"reconnect"}
    /\ link' = [link EXCEPT !.reconnects = @ + 1]
    /\ settled' = None
    /\ UNCHANGED <<gate, sim, quote, last, tracked, wsOpen, seen, queue, executedMints, inFlight, ticks, trades,
                   nextId, execution, proc, sent, opens, atClose, observed, enqueued,
                   dispatched>>

\* ws.on('error') of a socket, open or connecting: the error is logged.
OnError ==
    /\ proc = "running"
    /\ link.sockets > 0
    /\ timers' = timers
    /\ link' = link
    /\ settled' = None
    /\ UNCHANGED <<gate, sim, quote, last, tracked, wsOpen, seen, queue, executedMints, inFlight, ticks, trades,
                   nextId, execution, proc, sent, opens, atClose, observed, enqueued,
                   dispatched>>

\* ws.on('open'): subscribeAll() on the registry as it is now.
OnOpen ==
    /\ proc = "running"
    /\ ~wsOpen
    /\ "reconnect" \notin timers
    /\ wsOpen' = TRUE
    /\ sent' = SubscribeAll(tracked)
    /\ opens' = IF opens < 2 THEN opens + 1 ELSE opens
    /\ settled' = None
    /\ UNCHANGED <<gate, sim, quote, last, tracked, seen, queue, executedMints, inFlight, ticks, trades, nextId,
                   execution, proc, timers, atClose, link, observed, enqueued, dispatched>>

\* An onUpdate that subscribes whatever the state of the socket.
OnUpdateUnguarded(map) ==
    /\ proc = "running"
    /\ "watcher" \in timers
    /\ tracked' = map
    /\ sent' = SubscribeAll(map)
    /\ settled' = None
    /\ UNCHANGED <<gate, sim, quote, wsOpen, seen, queue, executedMints, inFlight, ticks, trades,
                   nextId, execution, proc, timers, opens, atClose, link, observed, enqueued,
                   dispatched>>

\* The wallet loader's onUpdate callback: the map is replaced wholesale, and
\* subscribeAll() runs if the socket is open.
OnUpdate(map) ==
    /\ proc = "running"
    /\ "watcher" \in timers
    /\ tracked' = map
    /\ sent' = IF wsOpen THEN SubscribeAll(map) ELSE sent
    /\ settled' = None
    /\ UNCHANGED <<gate, sim, quote, wsOpen, seen, queue, executedMints, inFlight, ticks, trades,
                   nextId, execution, proc, timers, opens, atClose, link, observed, enqueued,
                   dispatched>>

\* load(), on the watcher's interval: nothing happens unless the text changed;
\* otherwise the map is rebuilt from the lines and handed to onUpdate.
Load(txt) ==
    /\ txt # last
    /\ last' = txt
    /\ OnUpdate(Delivered[txt])

\* ws.on('message') of the price stream: JSON.parse(data) and msg.data.mint are
\* read outside any try, so a frame that is not JSON, or a price frame without
\* data, throws out of the listener; a good frame only updates the price cache.
OnPriceMessage(parsed) ==
    /\ proc = "running"
    /\ proc' = IF parsed THEN proc ELSE "crashed"
    /\ settled' = None
    /\ UNCHANGED <<gate, sim, quote, last, tracked, wsOpen, seen, queue, executedMints, inFlight, ticks, trades,
                   nextId, execution, timers, sent, opens, atClose, link, observed, enqueued,
                   dispatched>>

\* The latency timer's async callback awaits this.conn.getSlot() outside any
\* try: a rejection is an unhandled rejection, which ends the process or only
\* warns, depending on the runtime's unhandled-rejections mode.
LatencyPing ==
    /\ proc = "running"
    /\ "latency" \in timers
    /\ \E rejected \in BOOLEAN :
          proc' \in IF rejected THEN {"running", "crashed"} ELSE {"running"}
    /\ settled' = None
    /\ UNCHANGED <<gate, sim, quote, last, tracked, wsOpen, seen, queue, executedMints, inFlight, ticks, trades,
                   nextId, execution, timers, sent, opens, atClose, link, observed, enqueued,
                   dispatched>>

\* shutdown(), on SIGINT: it has no await.  clearInterval of the worker and of
\* the latency timer, the wallet watcher stopped, this.ws.close(), the summary,
\* process.exit(0); the socket's close event cannot be delivered before the exit.
Cleared == {"worker", "latency", "watcher"}
Shutdown ==
    /\ proc = "running"
    /\ atClose' = timers \ Cleared
    /\ link' = [sockets |-> 0, reconnects |-> 0]
    /\ timers' = {}
    /\ wsOpen' = FALSE
    /\ sent' = NoRequests
    /\ proc' = "exited"
    /\ settled' = None
    /\ UNCHANGED <<gate, sim, quote, last, tracked, seen, queue, executedMints, inFlight, ticks, trades, nextId,
                   execution, opens, observed, enqueued, dispatched>>

\* --------------------------------------------------------------- scheduler
\* this.inFlight >= cfg.maxInFlight (the tick's entry check and the loop's break)
CapExceeded(n) == n > maxInFlight
CapReached(n) == n >= maxInFlight

\* this.tracked.get(wallet)?.rules || {}
RulesOf(t, w) == IF w \in DOMAIN t THEN t[w] ELSE EmptyRules

\* (rules.success_rate || 1): a missing rate counted as 1
SuccessRateOrOne(t, w) ==
    IF RulesOf(t, w).success_rate = 0 THEN 1 ELSE RulesOf(t, w).success_rate
\* (rules.success_rate || 0) of a job's wallet
SuccessRate(t, w) == RulesOf(t, w).success_rate

\* The sort comparator: (bRules.success_rate || 0) - (aRules.success_rate || 0)
CompareAscending(aRate, bRate) == aRate - bRate
Compare(aRate, bRate) == bRate - aRate

\* Array.prototype.sort with that comparator: a stable sort, as an insertion of
\* each entry behind the entries the comparator does not put after it.
RECURSIVE InsertSorted(_, _)
InsertSorted(e, s) ==
    IF s = <<>> THEN <<e>>
    ELSE IF Compare(Head(s).key, e.key) <= 0
         THEN <<Head(s)>> \o InsertSorted(e, Tail(s))
         ELSE <<e>> \o s

RECURSIVE SortInto(_, _)
SortInto(s, acc) ==
    IF s = <<>> THEN acc ELSE SortInto(Tail(s), InsertSorted(Head(s), acc))

\* The backlog keyed by the rates of the file read at construction, whatever the
\* registry holds at sort time.
KeyedAtStart(q, t) ==
    [k \in DOMAIN q |-> [job |-> q[k], key |-> SuccessRate(LoadMap(FileRated), q[k].wallet)]]
\* const jobs = [...this.queue].sort(...): the whole backlog, each entry with the
\* rate its wallet has in the registry at sort time.
Keyed(q, t) == [k \in DOMAIN q |-> [job |-> q[k], key |-> SuccessRate(t, q[k].wallet)]]
TakeFirst(q, t) == SortInto(SubSeq(Keyed(q, t), 1, IF q = <<>> THEN 0 ELSE 1), <<>>)
TakeBatch(q, t) == SortInto(Keyed(q, t), <<>>)

\* The for loop of the tick from its current position up to the next
\* "await this.handleSignal(job)": break at the cap, continue over executed
\* signatures.  admit: the head of jobs is dispatched.
RECURSIVE Loop(_, _, _)
Loop(jobs, n, exe) ==
    IF jobs = <<>> THEN [admit |-> FALSE, jobs |-> <<>>]
    ELSE IF CapReached(n) THEN [admit |-> FALSE, jobs |-> <<>>]
    ELSE IF Head(jobs).job.sig \in exe THEN Loop(Tail(jobs), n, exe)
    ELSE [admit |-> TRUE, jobs |-> jobs]

\* this.inFlight++ and handleSignal(job) up to its first await: the wallet's
\* rules are captured from the registry.
Start(quota, jobs) ==
    [pc |-> "lookups", job |-> Head(jobs).job,
     rules |-> RulesOf(tracked, Head(jobs).job.wallet),
     jobs |-> Tail(jobs), quota |-> IF quota > -1 THEN quota - 1 ELSE quota,
     lastKey |-> Head(jobs).key,
     member |-> Head(jobs).job.wallet \in DOMAIN tracked, solUsd |-> 0]

\* finally { this.inFlight-- }
FinallyKeep(n) == n
Finally(n) == n - 1

\* this.executedMints.add(job.sig), reached only when handleSignal returned
MarkExecuted(exe, sig, result) == IF result = "throw" THEN exe ELSE exe \cup {sig}

\* The setInterval callback of runWorker, from its entry to its first await.
Tick ==
    /\ proc = "running"
    /\ "worker" \in timers
    /\ settled' = None
    /\ UNCHANGED life
    /\ IF CapReached(inFlight)
       THEN UNCHANGED <<gate, sim, quote, last, tracked, wsOpen, seen, queue, executedMints, inFlight, ticks,
                        trades, nextId, observed, enqueued, dispatched>>
       ELSE LET res == Loop(TakeBatch(queue, tracked), inFlight, executedMints)
            IN /\ queue' = <<>>
               /\ IF res.admit
                  THEN /\ ticks' = ticks \cup {Start(maxInFlight - inFlight, res.jobs)}
                       /\ inFlight' = inFlight + 1
                       /\ dispatched' = BumpTo2(dispatched, Head(res.jobs).job.sig)
                  ELSE UNCHANGED <<ticks, inFlight, dispatched>>
               /\ UNCHANGED <<gate, sim, quote, last, tracked, wsOpen, seen, executedMints, trades, nextId,
                              observed, enqueued>>

\* Whether a job that settles at pc has called exec.buy: not before the buy
\* steps.
Bought(pc) == pc # "lookups"

\* The callback's resumption after "await this.handleSignal(job)" settled with
\* result (ok and skip: it returned; throw: it rejected), up to the next await.
\* recorded: the trades the job has appended, this step's included.
Complete(r, result, recorded) ==
    LET exe == MarkExecuted(executedMints, r.job.sig, result)
        n == Finally(inFlight)
        res == Loop(r.jobs, n, exe)
    IN /\ executedMints' = exe
       /\ settled' = [result |-> result, recorded |-> recorded, bought |-> Bought(r.pc)]
       /\ IF res.admit
          THEN /\ ticks' = (ticks \ {r}) \cup {Start(r.quota, res.jobs)}
               /\ inFlight' = n + 1
               /\ dispatched' = BumpTo2(dispatched, Head(res.jobs).job.sig)
          ELSE /\ ticks' = ticks \ {r}
               /\ inFlight' = n
               /\ UNCHANGED dispatched

\* ------------------------------------------------------------ SessionLog
\* The record newTrade builds from the id and the caller's meta.  Amounts are
\* in cents.
Trade(id, meta) ==
    [id |-> id, side |-> meta.side, costUsd |-> meta.costUsd,
     proceedsUsd |-> meta.proceedsUsd, realizedUsd |-> meta.realizedUsd]

\* newTrade(meta): { id: this.nextId++, ...meta } pushed on this.trades
NewTradePreIncrement(log, id, meta) == Append(log, Trade(id + 1, meta))
NewTrade(log, id, meta) == Append(log, Trade(id, meta))

\* summary(): the length of the log and the sums of its costUsd and realizedUsd
\* members.
RECURSIVE SumCost(_)
SumCost(log) == IF log = <<>> THEN 0 ELSE Head(log).costUsd + SumCost(Tail(log))
RECURSIVE SumRealized(_)
SumRealized(log) == IF log = <<>> THEN 0 ELSE Head(log).realizedUsd + SumRealized(Tail(log))
Summary(log) ==
    [count |-> Len(log), invested |-> SumCost(log), realized |-> SumRealized(log)]

\* The meta handleSignal passes for a creator launch: the buy's cost, no
\* proceeds, nothing realized.
CreatorMeta(costUsd) ==
    [side |-> "creator", costUsd |-> costUsd, proceedsUsd |-> 0, realizedUsd |-> 0]

\* A scalp meta that reports the proceeds as realized.
ScalpMetaGross(costUsd, proceedsUsd) ==
    [side |-> "scalp", costUsd |-> costUsd, proceedsUsd |-> proceedsUsd,
     realizedUsd |-> proceedsUsd]
\* The meta handleSignal passes on the standard path:
\* realizedUsd = sell.proceedsUsd - buy.costUsd.
ScalpMeta(costUsd, proceedsUsd) ==
    [side |-> "scalp", costUsd |-> costUsd, proceedsUsd |-> proceedsUsd,
     realizedUsd |-> proceedsUsd - costUsd]

\* The ledger once the awaited exec.sell has settled: the scalp trade is
\* recorded after the sell returned, and not at all when it threw.
AfterSellEager(log, id, threw, meta) == NewTrade(log, id, meta)
AfterSell(log, id, threw, meta) == IF threw THEN log ELSE NewTrade(log, id, meta)

\* ------------------------------------------------------------ handleSignal
\* Each action is the job's resumption after an await, or after a run of awaits
\* between which the job touches nothing shared, up to the next one.

\* estBuySizeUsd = min(rules.est_buy_size_usd || 50, 0.5 * solUsd) and
\* buySol = min(estBuySizeUsd / solUsd, 0.5), so buySol * solUsd is estBuySizeUsd.
Notional(rules, solUsd) ==
    LET est == IF rules.est_buy_size_usd = 0 THEN 5000 ELSE rules.est_buy_size_usd
        half == solUsd \div 2
    IN IF est < half THEN est ELSE half

\* buySol * solUsd < minBuyUsd || rules.trade_frequency < 0.5
TooSmallNever(rules, solUsd) == FALSE
TooSmall(rules, solUsd) ==
    \/ Notional(rules, solUsd) < (IF rules.min_buy_usd = 0 THEN 1000 ELSE rules.min_buy_usd)
    \/ (rules.trade_frequency # -1 /\ rules.trade_frequency < 5)

\* const rules = walletInfo?.rules || {}, read once before the first await: the
\* rules every later decision of the job reads.
JobRulesLive(r) == RulesOf(tracked, r.job.wallet)
JobRules(r) == r.rules

\* The job goes on to its next await; solUsd is what it sized its buy with.
Proceed(r, pc, solUsd) ==
    /\ ticks' = (ticks \ {r}) \cup {[r EXCEPT !.pc = pc, !.solUsd = solUsd]}
    /\ settled' = None
    /\ UNCHANGED <<executedMints, inFlight, dispatched>>

\* if (isCreator && isCreateTx && tokenMint): isCreateTx, a log of the
\* transaction names the program and 'create'; tokenMint, the first account of
\* the transaction's first inner instruction, is there.
IsLaunch(rules, isCreateTx, tokenMint) == rules.isCreator /\ isCreateTx /\ tokenMint

\* What handleSignal finds on its way to the buy: enough, the balance covers
\* requiredSol; isCreateTx and tokenMint as above; solUsd, the SOL price read
\* from the price file; capTooHigh, the market cap is above 1M.
Found(enough, isCreateTx, tokenMint, solUsd, capTooHigh) ==
    [enough |-> enough, isCreateTx |-> isCreateTx, tokenMint |-> tokenMint,
     solUsd |-> solUsd, capTooHigh |-> capTooHigh]

\* The await the job is at next, or "skip" when a gate ends it: the balance
\* gate, the test of the creator path, the size gate, the market-cap gate, in
\* the order of the code.
Path(rules, f) ==
    IF ~f.enough THEN "skip"
    ELSE IF IsLaunch(rules, f.isCreateTx, f.tokenMint) THEN "creatorBuy"
    ELSE IF TooSmall(rules, f.solUsd) THEN "skip"
    ELSE IF f.capTooHigh THEN "skip"
    ELSE "buy"

\* The findings that lead to different outcomes for some rules: what a later
\* test would read is left at its first value when an earlier test decides.
Findings ==
    {Found(FALSE, FALSE, FALSE, 1500, FALSE)}
        \cup {Found(TRUE, isCreateTx, tokenMint, solUsd, capTooHigh) :
                  isCreateTx \in BOOLEAN, tokenMint \in BOOLEAN,
                  solUsd \in {1500, 15000}, capTooHigh \in BOOLEAN}

\* Where the job is after its lookups, and the SOL price it sized a standard
\* buy with.
AfterLookups(rules, f) ==
    LET path == Path(rules, f)
    IN [path |-> path, solUsd |-> IF path = "buy" THEN f.solUsd ELSE 0]

\* The awaits of handleSignal before the buy.  getTransaction rejects or
\* returns a transaction; getWalletBalance, getSolUsdFromFile, getTokenPrice
\* and getMarketCap never reject.  A gate ends the job with a skip; otherwise
\* exec.buy is called, on the creator path or on the standard path.
Lookups(r) ==
    /\ proc = "running"
    /\ r.pc = "lookups"
    /\ \/ Complete(r, "throw", 0)
       \/ \E o \in {AfterLookups(JobRules(r), f) : f \in Findings} :
             IF o.path = "skip"
             THEN Complete(r, "skip", 0)
             ELSE Proceed(r, o.path, o.solUsd)
    /\ UNCHANGED <<gate, sim, quote, last, tracked, wsOpen, seen, queue, trades, nextId, observed,
                   enqueued>>
    /\ UNCHANGED life

\* Whether exec.buy / exec.sell rejects.  The JitoAdapter calls
\* buildPumpFunBuyTx / buildPumpFunSellTx, which nothing defines: every call
\* rejects.  The simulated adapter stands for any adapter behind the interface:
\* a call returns a fill or rejects.
BuyThrowsAsSimulated(adapter) == BOOLEAN
BuyThrows(adapter) == IF adapter = "jito" THEN {TRUE} ELSE BOOLEAN
SellThrows(adapter) == IF adapter = "jito" THEN {TRUE} ELSE BOOLEAN

\* SimulatedAdapter.buy: costUsd = solAmount * solUsd with its own solUsd = 150,
\* whatever SOL price the job sized solAmount with.  solAmount * jobSolUsd is
\* the job's notional.
SimSolUsd == 15000
BuyCost(notional, jobSolUsd) == (notional * SimSolUsd) \div jobSolUsd

\* The creator launch buys Math.min(0.3, cfg.buySol) SOL, cfg.buySol = 0.2.
CreatorBuyCost == (20 * SimSolUsd) \div 100

\* cfg.maxSlippageBps and the fixed profit target of the exit (7.5 USD).
maxSlippageBps == 200
targetProfitUsd == 750

\* The take-profit exit with rules.tp_multiple absent (1.5), in basis points:
\* scaledTpMultiple = 1 + (targetProfitUsd / yourBuyUsd) * (walletTpMultiple - 1),
\* capped at 2.0.
ScaledTpMultiple(yourBuyUsd) ==
    LET scaled == 10000 + (targetProfitUsd * (15000 - 10000)) \div yourBuyUsd
    IN IF scaled < 20000 THEN scaled ELSE 20000

\* targetTotalUsd = buy.fillUsd * min(scaledTpMultiple, 2.0) * buy.sizeTokens,
\* where buy.fillUsd * buy.sizeTokens is buy.costUsd.
TargetTotalUsd(costUsd, yourBuyUsd) == (costUsd * ScaledTpMultiple(yourBuyUsd)) \div 10000

\* exitPriceForTargetUsd called with targetUsd: targetTotalUsd.  needed = cost +
\* targetUsd is what the exit price nets after the exit fee and the slippage:
\* price * sizeTokens * netFactor = needed.
NeededUsd(costUsd, yourBuyUsd) == costUsd + TargetTotalUsd(costUsd, yourBuyUsd)

\* exitPriceForTargetUsd gives (cost + target) / (size * (1 - fee) * (1 - slip)),
\* SimulatedAdapter.sell fills at half the slippage under it and takes the fee:
\* proceedsUsd = (cost + target) * (1 - slip / 2) / (1 - slip).
SellProceeds(costUsd, yourBuyUsd) ==
    (NeededUsd(costUsd, yourBuyUsd) * (10000 - maxSlippageBps \div 2))
        \div (10000 - maxSlippageBps)

\* await this.exec.buy(...) of a creator launch: the adapter rejects, or returns
\* and the creator trade is recorded; the job returns without a sell.
CreatorBuy(r) ==
    /\ proc = "running"
    /\ r.pc = "creatorBuy"
    /\ \E threw \in BuyThrows(execution) :
          IF threw
          THEN /\ Complete(r, "throw", 0)
               /\ UNCHANGED <<trades, nextId>>
          ELSE /\ trades' = NewTrade(trades, nextId, CreatorMeta(CreatorBuyCost))
               /\ nextId' = nextId + 1
               /\ Complete(r, "ok", 1)
    /\ UNCHANGED <<gate, sim, quote, last, tracked, wsOpen, seen, queue, observed, enqueued>>
    /\ UNCHANGED life

\* await this.exec.buy(...) on the standard path: the adapter rejects, or returns;
\* then the exit is computed (with its optional momentum delay) and exec.sell is
\* called.
Buy(r) ==
    /\ proc = "running"
    /\ r.pc = "buy"
    /\ \E threw \in BuyThrows(execution) :
          IF threw
          THEN Complete(r, "throw", 0)
          ELSE Proceed(r, "sell", r.solUsd)
    /\ UNCHANGED <<gate, sim, quote, last, tracked, wsOpen, seen, queue, trades, nextId, observed,
                   enqueued>>
    /\ UNCHANGED life

\* await this.exec.sell(...): the adapter rejects, or returns and the scalp trade
\* is recorded.
Sell(r) ==
    /\ proc = "running"
    /\ r.pc = "sell"
    /\ \E threw \in SellThrows(execution) :
          LET yourBuyUsd == Notional(JobRules(r), r.solUsd)
              costUsd == BuyCost(yourBuyUsd, r.solUsd)
          IN /\ trades' = AfterSell(trades, nextId, threw,
                                    ScalpMeta(costUsd, SellProceeds(costUsd, yourBuyUsd)))
             /\ nextId' = nextId + (Len(trades') - Len(trades))
             /\ Complete(r, IF threw THEN "throw" ELSE "ok", Len(trades') - Len(trades))
    /\ UNCHANGED <<gate, sim, quote, last, tracked, wsOpen, seen, queue, observed, enqueued>>
    /\ UNCHANGED life

\* ------------------------------------------------------------ Number
\* The arithmetic of JavaScript Numbers, IEEE 754 doubles: every operation is
\* the exact one followed by rounding to 53 significant places, ties to even.
\* Infinities, NaN and subnormals are not modelled: no operand here comes
\* near them.  Mantissas are kept in limbs of 14 places, so that a product of
\* two limbs and a column of four products stay within 31 places.
Precision == 53
LimbBits == 14
Base == 2^LimbBits

\* A natural number is the sequence of its limbs, lowest first.
Limb(N, i) == IF i >= 0 /\ i < Len(N) THEN N[i + 1] ELSE 0
IsZero(N) == \A i \in DOMAIN N : N[i] = 0
TopLimb(N) == CHOOSE i \in 0..(Len(N) - 1) : N[i + 1] # 0 /\ \A j \in (i + 1)..(Len(N) - 1) : N[j + 1] = 0
BitLen(N) ==
    LET t == TopLimb(N)
    IN LimbBits * t + (CHOOSE n \in 1..LimbBits : 2^(n - 1) <= N[t + 1] /\ N[t + 1] < 2^n)
Bit(N, k) == (Limb(N, k \div LimbBits) \div 2^(k % LimbBits)) % 2
AnyBelow(N, k) ==
    \/ \E i \in 0..((k \div LimbBits) - 1) : Limb(N, i) # 0
    \/ Limb(N, k \div LimbBits) % 2^(k % LimbBits) # 0
\* N * 2^s and floor(N / 2^s), in n limbs.
Shl(N, s, n) ==
    LET w == s \div LimbBits
        b == s % LimbBits
    IN [i \in 1..n |-> ((Limb(N, i - 1 - w) * 2^b) % Base) + (Limb(N, i - 2 - w) \div 2^(LimbBits - b))]
Shr(N, s, n) ==
    LET w == s \div LimbBits
        b == s % LimbBits
    IN [i \in 1..n |-> (Limb(N, i - 1 + w) \div 2^b) + (Limb(N, i + w) % 2^b) * 2^(LimbBits - b)]

RECURSIVE Carried(_, _, _)
Carried(cols, i, carry) ==
    IF i > Len(cols) THEN <<>>
    ELSE LET t == cols[i] + carry IN <<t % Base>> \o Carried(cols, i + 1, t \div Base)
\* A + B, and A - B for A >= B (as A plus the complement of B plus one).
Plus(A, B, n) == Carried([i \in 1..n |-> Limb(A, i - 1) + Limb(B, i - 1)], 1, 0)
Minus(A, B, n) == Carried([i \in 1..n |-> Limb(A, i - 1) + (Base - 1) - Limb(B, i - 1)], 1, 1)
\* A * B for A of at most four limbs: column k sums the limb products of weight k.
Times(A, B) ==
    Carried([k \in 1..(4 + Len(B)) |->
                Limb(A, 0) * Limb(B, k - 1) + Limb(A, 1) * Limb(B, k - 2)
                    + Limb(A, 2) * Limb(B, k - 3) + Limb(A, 3) * Limb(B, k - 4)], 1, 0)
\* The highest limb in which A and B differ decides.
Less(A, B, n) ==
    \E i \in 0..(n - 1) :
        /\ Limb(A, i) < Limb(B, i)
        /\ \A j \in (i + 1)..(n - 1) : Limb(A, j) = Limb(B, j)

\* A Number is a sign, a mantissa m of exactly Precision places (four limbs,
\* the top place set) and an exponent e: m * 2^e.  Zero has mantissa 0.
NoPlaces == <<0, 0, 0, 0>>
Zero == [neg |-> FALSE, m |-> NoPlaces, e |-> 0]
AllPlaces == <<Base - 1, Base - 1, Base - 1, 2^(Precision - 3 * LimbBits) - 1>>
\* N * 2^e rounded to the nearest Number, ties to the even mantissa.
Round(neg, N, e) ==
    IF IsZero(N) THEN Zero
    ELSE LET s == BitLen(N) - Precision
         IN IF s <= 0 THEN [neg |-> neg, m |-> Shl(N, -s, 4), e |-> e + s]
            ELSE LET q == Shr(N, s, 4)
                     up == /\ Bit(N, s - 1) = 1
                           /\ AnyBelow(N, s - 1) \/ q[1] % 2 = 1
                 IN IF ~up THEN [neg |-> neg, m |-> q, e |-> e + s]
                    ELSE IF q = AllPlaces
                    THEN [neg |-> neg, m |-> Shl(<<1>>, Precision - 1, 4), e |-> e + s + 1]
                    ELSE [neg |-> neg, m |-> Plus(q, <<1>>, 4), e |-> e + s]

Num(n) == Round(FALSE, <<n % Base, (n \div Base) % Base, n \div (Base * Base)>>, 0)
One == Num(1)
Neg(a) == IF a.m = NoPlaces THEN a ELSE [a EXCEPT !.neg = ~a.neg]
Abs(a) == [a EXCEPT !.neg = FALSE]
Mul(a, b) == Round(a.neg # b.neg, Times(a.m, b.m), a.e + b.e)

\* Long division of mantissas held as two halves of 28 places.  A step
\* subtracts the divisor d from the remainder r if it fits, writes one
\* quotient place and doubles the remainder; t counts the steps.
Half == 2^(2 * LimbBits)
Halves(m) == [h |-> m[4] * Base + m[3], l |-> m[2] * Base + m[1]]
Doubled(p, bit) == [h |-> 2 * p.h + ((2 * p.l + bit) \div Half), l |-> (2 * p.l + bit) % Half]
DivStep(s) ==
    IF s.r.h > s.d.h \/ (s.r.h = s.d.h /\ s.r.l >= s.d.l)
    THEN [s EXCEPT !.q = Doubled(s.q, 1), !.t = @ + 1,
                   !.r = Doubled(IF s.r.l >= s.d.l
                                 THEN [h |-> s.r.h - s.d.h, l |-> s.r.l - s.d.l]
                                 ELSE [h |-> s.r.h - s.d.h - 1, l |-> s.r.l + Half - s.d.l], 0)]
    ELSE [s EXCEPT !.q = Doubled(s.q, 0), !.t = @ + 1, !.r = Doubled(s.r, 0)]
\* Four steps at a time, until Precision + 3 places are written or nothing
\* is left to divide.
RECURSIVE Divided(_)
Divided(s) ==
    IF s.t >= Precision + 3 \/ (s.r.h = 0 /\ s.r.l = 0) THEN s
    ELSE Divided(DivStep(DivStep(DivStep(DivStep(s)))))
Div(a, b) ==
    IF a.m = NoPlaces THEN Zero
    ELSE LET s == Divided([r |-> Halves(a.m), d |-> Halves(b.m), q |-> [h |-> 0, l |-> 0], t |-> 0])
         IN Round(a.neg # b.neg,
                  <<IF s.r.h = 0 /\ s.r.l = 0 THEN 0 ELSE 1, s.q.l % Base, s.q.l \div Base,
                    s.q.h % Base, s.q.h \div Base>>,
                  a.e - b.e - (s.t - 1) - LimbBits)

\* |a| < |b|
Smaller(a, b) ==
    IF b.m = NoPlaces THEN FALSE
    ELSE IF a.m = NoPlaces THEN TRUE
    ELSE a.e < b.e \/ (a.e = b.e /\ Less(a.m, b.m, 4))
\* The exact sum or difference of the magnitudes, |a| >= |b|: a is moved up
\* to b's exponent, or b, too far below to matter but for its presence,
\* is taken as one unit Precision + 2 places under a.
Apart == Precision + 2
Joined(a, b, minus) ==
    LET gap == IF a.e - b.e > Apart THEN Apart ELSE a.e - b.e
        A == Shl(a.m, gap, 8)
        B == IF a.e - b.e > Apart THEN <<1>> ELSE b.m
    IN Round(a.neg, IF minus THEN Minus(A, B, 8) ELSE Plus(A, B, 8), a.e - gap)
Add(a, b) ==
    IF b.m = NoPlaces THEN a
    ELSE IF a.m = NoPlaces THEN b
    ELSE IF Smaller(a, b) THEN Joined(b, a, a.neg # b.neg)
    ELSE Joined(a, b, a.neg # b.neg)
Sub(a, b) == Add(a, Neg(b))
Lt(a, b) ==
    IF a.neg # b.neg THEN a.neg
    ELSE IF a.neg THEN Smaller(b, a) ELSE Smaller(a, b)
Max(a, b) == IF Lt(a, b) THEN b ELSE a

\* The decimal literal num / den, and num * 10^-15.
Dec(num, den) == Div(Num(num), Num(den))
Femto(num) == Div(Num(num), Round(FALSE, Times(Num(10000000).m, Num(100000000).m), Num(10000000).e + Num(100000000).e))
BpsBase == Num(10000)

\* ------------------------------------------------------------ SimulatedAdapterV2
\* The bot's variables: no call on the simulator or on the pricing functions
\* touches them.
bot == <<last, tracked, wsOpen, seen, queue, executedMints, inFlight, ticks, trades,
         nextId, execution, proc, timers, sent, opens, atClose, link, observed, enqueued,
         dispatched, settled>>

\* The literals of the adapter.
initTokenPriceUsd == Dec(1, 1000)
fallbackSolUsd == Num(20)
Two == Num(2)
sellFloor == Dec(1, 1000000)
priceFloor == Femto(1000)
priceReset == Dec(1, 1000000)
jumpDown == Neg(Dec(1, 10))
halfStep == Dec(1, 2)
quotedSolUsd == Num(150)

NoBuy == [sizeTokens |-> Zero, fillUsd |-> Zero, costUsd |-> Zero]
NoSell == [sizeTokens |-> Zero, fillUsd |-> Zero, proceedsUsd |-> Zero]

\* new SimulatedAdapterV2(opts): solUsd is 0 until a quote arrives.  pc tells
\* which call returned last; moved, that the walker changed the price since
\* the last buy; walks counts the walker's ticks.
Adapter(feeBps, liquidityTokens, priceVolatility) ==
    [feeBps |-> feeBps, liquidityTokens |-> liquidityTokens,
     tokenPriceUsd |-> initTokenPriceUsd, priceVolatility |-> priceVolatility,
     solUsd |-> Zero, pc |-> "idle", moved |-> FALSE, walks |-> 0,
     buy |-> NoBuy, sell |-> NoSell]

\* The bot never constructs this adapter.
NoSim == [pc |-> "absent"]

\* _computeBuy(sizeUsd): the tokens a buy receives and its average fill price.
ComputeBuy(s, sizeUsd) ==
    LET tokens0 == Div(sizeUsd, s.tokenPriceUsd)
        twice == Mul(Two, s.liquidityTokens)
        avgImpactFactor == Add(One, Div(tokens0, twice))
        effectivePrice == Mul(s.tokenPriceUsd, avgImpactFactor)
        costUsd == Mul(tokens0, effectivePrice)
        adjustment == Div(sizeUsd, costUsd)
        tokens == Mul(tokens0, adjustment)
        newAvgImpactFactor == Add(One, Div(tokens, twice))
    IN [tokens |-> tokens, fillPriceUsd |-> Mul(s.tokenPriceUsd, newAvgImpactFactor)]

\* buy({solAmount}): the fee is paid on top of the notional.
SimBuyResult(s, solAmount) ==
    LET solUsd == IF s.solUsd = Zero THEN fallbackSolUsd ELSE s.solUsd
        sizeUsd == Mul(solAmount, solUsd)
        filled == ComputeBuy(s, sizeUsd)
        feeUsd == Div(Mul(sizeUsd, s.feeBps), BpsBase)
    IN [sizeTokens |-> filled.tokens, fillUsd |-> filled.fillPriceUsd,
        costUsd |-> Add(sizeUsd, feeUsd)]

\* sell({sizeTokens}): the fill is the price less the impact, floored.
SellImpact(s, sizeTokens) == Sub(One, Div(sizeTokens, Mul(Two, s.liquidityTokens)))
SimSellResult(s, sizeTokens) ==
    LET fillPriceUsd == Mul(s.tokenPriceUsd, Max(SellImpact(s, sizeTokens), sellFloor))
        proceedsUsdNoFee == Mul(sizeTokens, fillPriceUsd)
        feeUsd == Div(Mul(proceedsUsdNoFee, s.feeBps), BpsBase)
    IN [sizeTokens |-> sizeTokens, fillUsd |-> fillPriceUsd,
        proceedsUsd |-> Sub(proceedsUsdNoFee, feeUsd)]

\* The notionals bought, in SOL: the bot's size, the default, and 5e-15.
SolAmounts == {Dec(2, 10), Dec(1, 100), Femto(5)}
MaxWalks == 1

\* A buy that leaves the price at its average fill.
SimBuyMovesPrice(solAmount) ==
    /\ sim.pc \in {"idle", "sold"}
    /\ sim' = [sim EXCEPT !.pc = "bought", !.moved = FALSE,
                          !.buy = SimBuyResult(sim, solAmount), !.sell = NoSell,
                          !.tokenPriceUsd = SimBuyResult(sim, solAmount).fillUsd]
    /\ UNCHANGED <<bot, quote, gate>>

\* buy() as the bot calls it: the adapter's fields are read, none is written.
SimBuy(solAmount) ==
    /\ sim.pc \in {"idle", "sold"}
    /\ sim' = [sim EXCEPT !.pc = "bought", !.moved = FALSE,
                          !.buy = SimBuyResult(sim, solAmount), !.sell = NoSell]
    /\ UNCHANGED <<bot, quote, gate>>

\* A sell of what the last buy filled, or of a size past twice the liquidity.
SimSell ==
    /\ sim.pc = "bought"
    /\ \E sizeTokens \in {sim.buy.sizeTokens, Num(3000000)} :
          sim' = [sim EXCEPT !.pc = "sold", !.sell = SimSellResult(sim, sizeTokens)]
    /\ UNCHANGED <<bot, quote, gate>>

\* The price walker's tick: a step of rand * priceVolatility with rand in
\* [-1, 1), or one time in a hundred a jump within 10% either way whatever
\* the volatility; a price at or below 1e-12 is reset.
PriceWalk ==
    /\ sim.pc # "absent"
    /\ sim.walks < MaxWalks
    /\ \E step \in {Neg(sim.priceVolatility), Mul(halfStep, sim.priceVolatility), jumpDown} :
          LET walked == Mul(sim.tokenPriceUsd, Add(One, step))
              price == IF Lt(priceFloor, walked) THEN walked ELSE priceReset
          IN sim' = [sim EXCEPT !.tokenPriceUsd = price, !.walks = @ + 1,
                                !.moved = @ \/ price # sim.tokenPriceUsd]
    /\ UNCHANGED <<bot, quote, gate>>

\* _updateSolUsd(): a quote arrived.
SolUsdFetched ==
    /\ sim.pc # "absent"
    /\ sim.solUsd = Zero
    /\ sim' = [sim EXCEPT !.solUsd = quotedSolUsd]
    /\ UNCHANGED <<bot, quote, gate>>

\* ------------------------------------------------------------ PricingMath
\* exitPriceForTargetUsd({entryUsd, sizeTokens, feeBps, exitSlipBps, targetUsd})
NetFactor(feeBps, exitSlipBps) ==
    Mul(Sub(One, Div(feeBps, BpsBase)), Sub(One, Div(exitSlipBps, BpsBase)))
ExitPriceForTargetUsd(entryUsd, sizeTokens, feeBps, exitSlipBps, targetUsd) ==
    LET cost == Mul(entryUsd, sizeTokens)
        needed == Add(cost, targetUsd)
    IN Div(needed, Mul(sizeTokens, NetFactor(feeBps, exitSlipBps)))

\* realizedProfitUsd({entryUsd, exitUsd, sizeTokens, feeBpsEntry, feeBpsExit})
RealizedProfitUsdGross(entryUsd, exitUsd, sizeTokens, feeBpsEntry, feeBpsExit) ==
    LET cost == Mul(Mul(entryUsd, sizeTokens), Add(One, Div(feeBpsEntry, BpsBase)))
        proceeds == Mul(exitUsd, sizeTokens)
    IN Sub(proceeds, cost)
RealizedProfitUsd(entryUsd, exitUsd, sizeTokens, feeBpsEntry, feeBpsExit) ==
    LET cost == Mul(Mul(entryUsd, sizeTokens), Add(One, Div(feeBpsEntry, BpsBase)))
        proceeds == Mul(Mul(exitUsd, sizeTokens), Sub(One, Div(feeBpsExit, BpsBase)))
    IN Sub(proceeds, cost)

\* The one exit term, in basis points, that takes off what the fee and the
\* slippage of the exit price take off together.
EquivalentBps(feeBps, exitSlipBps) == Mul(Sub(One, NetFactor(feeBps, exitSlipBps)), BpsBase)

\* The arguments of one exit-price call, before any result.
Asked(entryUsd, sizeTokens, feeBps, exitSlipBps, targetUsd) ==
    [entryUsd |-> entryUsd, sizeTokens |-> sizeTokens, feeBps |-> feeBps,
     exitSlipBps |-> exitSlipBps, targetUsd |-> targetUsd, pc |-> "asked",
     exitUsd |-> Zero, feeBpsEntry |-> Zero, feeBpsExit |-> Zero, realized |-> Zero]
NoQuote == [pc |-> "none"]
Quotes ==
    {Asked(entryUsd, sizeTokens, feeBps, exitSlipBps, targetUsd) :
        entryUsd \in {Dec(1, 1000), Dec(3, 1000)},
        sizeTokens \in {Num(10000), Num(4000)},
        feeBps \in {Num(60), Zero},
        exitSlipBps \in {Num(200), Num(100), Zero},
        targetUsd \in {Dec(15, 2), One}}

ExitPrice ==
    /\ quote.pc = "asked"
    /\ quote' = [quote EXCEPT !.pc = "priced",
                    !.exitUsd = ExitPriceForTargetUsd(quote.entryUsd, quote.sizeTokens,
                                    quote.feeBps, quote.exitSlipBps, quote.targetUsd)]
    /\ UNCHANGED <<bot, sim, gate>>

\* The price fed back, with the entry fee left out or charged, and as exit
\* term the equivalent of fee and slippage or the fee alone.
RealizedProfit ==
    /\ quote.pc = "priced"
    /\ \E feeBpsEntry \in {Zero, quote.feeBps},
          feeBpsExit \in {EquivalentBps(quote.feeBps, quote.exitSlipBps), quote.feeBps} :
          quote' = [quote EXCEPT !.pc = "realized", !.feeBpsEntry = feeBpsEntry,
                       !.feeBpsExit = feeBpsExit,
                       !.realized = RealizedProfitUsd(quote.entryUsd, quote.exitUsd,
                                        quote.sizeTokens, feeBpsEntry, feeBpsExit)]
    /\ UNCHANGED <<bot, sim, gate>>

\* ------------------------------------------------------------ path decision
\* The decision of handleSignal between its first await and its buy, taken for
\* one job on its own: the rules the job captured and what it found.
NoGate == [pc |-> "none"]

\* The rules a job can capture from the files above (a wallet the registry
\* does not hold gives the empty rules).
GateRules ==
    {RulesOf(Delivered[txt], w) :
        txt \in Files \cup StreamFiles \cup SortFiles \cup SwapFiles, w \in Wallets}
Gates == {[pc |-> "asked", rules |-> rules, found |-> f, path |-> "none"] :
             rules \in GateRules, f \in Findings}

Decide ==
    /\ gate.pc = "asked"
    /\ gate' = [gate EXCEPT !.pc = "decided", !.path = Path(gate.rules, gate.found)]
    /\ UNCHANGED <<bot, sim, quote>>

\* ------------------------------------------------------------------ lookups
\* What a lookup's request comes back with: Failed, the fetch, the RPC call or
\* the file read threw inside the lookup's try; Got(v), it returned v.
Failed == [ok |-> FALSE, value |-> 0]
Got(v) == [ok |-> TRUE, value |-> v]

\* getWalletBalance(): balance / 1e9 - 0.015 * cfg.maxInFlight, in thousandths
\* of a SOL; the catch returns 0.
GetWalletBalance(reply) == IF reply.ok THEN reply.value - 15 * maxInFlight ELSE 0

\* getSolUsdFromFile(): data.price || 25, in cents; a missing file and the catch
\* return 25.
GetSolUsdFromFileOrZero(reply) == IF reply.ok /\ reply.value # 0 THEN reply.value ELSE 0
GetSolUsdFromFile(reply) == IF reply.ok /\ reply.value # 0 THEN reply.value ELSE 2500

\* getTokenPrice(tokenMint): data?.data?.price || 0.001, in thousandths of a
\* dollar; the catch returns 0.001.
GetTokenPrice(reply) == IF reply.ok /\ reply.value # 0 THEN reply.value ELSE 1

\* getMarketCap(tokenMint): data?.data?.marketCap || 0, in dollars; the catch
\* returns 0.
GetMarketCap(reply) == IF reply.ok THEN reply.value ELSE 0

\* const requiredSol = 0.5 * cfg.maxInFlight + 0.015 * cfg.maxInFlight, in
\* thousandths of a SOL.
requiredSol == 500 * maxInFlight + 15 * maxInFlight

\* The findings of a job whose lookups came back with these replies.
Find(a) ==
    Found(GetWalletBalance(a.balance) >= requiredSol, a.isCreateTx, a.tokenMint,
          GetSolUsdFromFile(a.solUsd), GetMarketCap(a.marketCap) > 1000000)

\* A job before its lookups: its rules, its transaction, and what each of the
\* four requests will come back with.
Asks ==
    {[pc |-> "asking", rules |-> rules, isCreateTx |-> isCreateTx, tokenMint |-> tokenMint,
      balance |-> balance, solUsd |-> solUsd, price |-> price, marketCap |-> marketCap,
      mark |-> 0, found |-> Found(FALSE, FALSE, FALSE, 0, FALSE), path |-> "none"] :
        rules \in GateRules, isCreateTx \in BOOLEAN, tokenMint \in BOOLEAN,
        balance \in {Failed, Got(300), Got(2000)},
        solUsd \in {Failed, Got(0), Got(15000)},
        price \in {Failed, Got(40)},
        marketCap \in {Failed, Got(2000000)}}

\* handleSignal from the balance lookup to the call of exec.buy: every lookup
\* returns, and the gates read what it returned.
LookUp ==
    /\ gate.pc = "asking"
    /\ gate' = [gate EXCEPT !.pc = "looked", !.found = Find(gate),
                            !.mark = GetTokenPrice(gate.price),
                            !.path = Path(gate.rules, Find(gate))]
    /\ UNCHANGED <<bot, sim, quote>>

\* ------------------------------------------------------------ defensive exit
\* SimulatedAdapter.buy({solAmount, markUsd}) of the adapter the bot constructs:
\* the fill crosses half the slippage, the cost is solAmount at 150 USD.
PaperBuy(solAmount, markUsd) ==
    LET slip == Div(Num(maxSlippageBps), BpsBase)
        fill == Mul(markUsd, Add(One, Mul(slip, halfStep)))
        costUsd == Mul(solAmount, quotedSolUsd)
    IN [fillUsd |-> fill, sizeTokens |-> Div(costUsd, fill), costUsd |-> costUsd]

\* The auto-sell branch: exitPrice = mark * 0.95 and the targetExitUsd member
\* of the sell call, exitPrice * buy.sizeTokens.  The adapter reads
\* targetExitUsd as the price of one token.
DumpTargetExitUsd(markUsd, sizeTokens) == Mul(Mul(markUsd, Dec(95, 100)), sizeTokens)

\* A mark price and a buy size in SOL, before the buy.
Dumps ==
    {[pc |-> "marked", markUsd |-> markUsd, solAmount |-> solAmount,
      sizeTokens |-> Zero, targetExitUsd |-> Zero] :
        markUsd \in {Dec(1, 1000), Dec(3, 1000), Dec(1, 2), One, Num(20), Num(100),
                     Num(150), Num(4000)},
        solAmount \in {Dec(1, 2), Dec(1, 3), Dec(2, 10), Dec(1, 10), Dec(1, 15),
                       Dec(1, 100), Femto(5)}}

\* The buy and the sell call of a job that takes the auto-sell branch.
AutoSell ==
    /\ quote.pc = "marked"
    /\ LET buy == PaperBuy(quote.solAmount, quote.markUsd)
       IN quote' = [quote EXCEPT !.pc = "dumping", !.sizeTokens = buy.sizeTokens,
                       !.targetExitUsd = DumpTargetExitUsd(quote.markUsd, buy.sizeTokens)]
    /\ UNCHANGED <<bot, sim, gate>>

\* ------------------------------------------------------------ specification
\* The state after new Bot({..., execution}) and start(): the registry loaded,
\* the adapter chosen, the timers armed, the log stream connecting.
Constructed(adapter) ==
    /\ tracked = LoadMap(last)
    /\ wsOpen = FALSE
    /\ seen = <<>>
    /\ queue = <<>>
    /\ executedMints = {}
    /\ inFlight = 0
    /\ ticks = {}
    /\ trades = <<>>
    /\ nextId = 1
    /\ execution = adapter
    /\ proc = "running"
    /\ timers = Cleared
    /\ sent = NoRequests
    /\ opens = 0
    /\ atClose = {}
    /\ link = [sockets |-> 1, reconnects |-> 0]
    /\ observed = [s \in Sigs |-> 0]
    /\ enqueued = [s \in Sigs |-> 0]
    /\ dispatched = [s \in Sigs |-> 0]
    /\ settled = None

\* execution = 'simulated' is the constructor's default and what dev.js passes.
Init == last \in Files /\ Constructed("simulated") /\ sim = NoSim /\ quote = NoQuote /\ gate = NoGate

Next ==
    \/ \E frame \in Frames : OnMessage(frame)
    \/ OnOpen
    \/ \E txt \in Files : Load(txt)
    \/ Tick
    \/ \E r \in ticks : Lookups(r)
    \/ \E r \in ticks : CreatorBuy(r)
    \/ \E r \in ticks : Buy(r)
    \/ \E r \in ticks : Sell(r)

Spec == Init /\ [][Next]_vars

\* The stream side alone, with disconnects, the background callbacks and the
\* shutdown: the scheduler does not run, so the backlog keeps every Signal.  The
\* wallets file may be empty.
NextStream ==
    \/ \E frame \in Frames \cup FailedFrames : OnMessage(frame)
    \/ OnClose
    \/ OnError
    \/ Reconnect
    \/ OnOpen
    \/ \E txt \in StreamFiles : Load(txt)
    \/ \E parsed \in BOOLEAN : OnPriceMessage(parsed)
    \/ LatencyPing
    \/ Shutdown

SpecStream == Init /\ [][NextStream]_vars

\* The scheduler and the jobs with either adapter selected at construction, the
\* registry staying as it was loaded.
InitLive ==
    /\ last \in Files
    /\ \E adapter \in {"simulated", "jito"} : Constructed(adapter)
    /\ sim = NoSim /\ quote = NoQuote /\ gate = NoGate
NextLive ==
    \/ \E frame \in Frames : OnMessage(frame)
    \/ OnOpen
    \/ Tick
    \/ \E r \in ticks : Lookups(r)
    \/ \E r \in ticks : CreatorBuy(r)
    \/ \E r \in ticks : Buy(r)
    \/ \E r \in ticks : Sell(r)

SpecLive == InitLive /\ [][NextLive]_vars

\* The bot on the rated registry with the scheduling the runtime gives: the
\* interval keeps calling the scheduler callback (setInterval, 50 ms), and every
\* await of a job settles, so a job that is at a step takes it.
InitFair == last = FileRated /\ Constructed("simulated") /\ sim = NoSim /\ quote = NoQuote /\ gate = NoGate
NextFair ==
    \/ \E frame \in Frames : OnMessage(frame)
    \/ OnOpen
    \/ Tick
    \/ \E r \in ticks : Lookups(r)
    \/ \E r \in ticks : Buy(r)
    \/ \E r \in ticks : Sell(r)

SpecFair ==
    /\ InitFair
    /\ [][NextFair]_vars
    /\ WF_vars(Tick)
    /\ WF_vars(\E r \in ticks : Lookups(r))
    /\ WF_vars(\E r \in ticks : Buy(r))
    /\ WF_vars(\E r \in ticks : Sell(r))

\* The scheduler under registry refreshes that drop a wallet's success_rate or
\* drop the wallet while another wallet stays rated: the bot of Spec, started on
\* FileUnrated, with the reloads drawn from SortFiles.
InitSort == last = FileUnrated /\ Constructed("simulated") /\ sim = NoSim /\ quote = NoQuote /\ gate = NoGate
NextSort ==
    \/ \E frame \in Frames : OnMessage(frame)
    \/ OnOpen
    \/ \E txt \in SortFiles : Load(txt)
    \/ Tick
    \/ \E r \in ticks : Lookups(r)
    \/ \E r \in ticks : Buy(r)
    \/ \E r \in ticks : Sell(r)

SpecSort == InitSort /\ [][NextSort]_vars

\* The scheduler under registry refreshes that exchange the rates of the two
\* wallets: the bot of Spec, started on the rated file, with the reloads drawn
\* from SwapFiles.
InitSwap == last = FileRated /\ Constructed("simulated") /\ sim = NoSim /\ quote = NoQuote /\ gate = NoGate
NextSwap ==
    \/ \E frame \in Frames : OnMessage(frame)
    \/ OnOpen
    \/ \E txt \in SwapFiles : Load(txt)
    \/ Tick
    \/ \E r \in ticks : Lookups(r)
    \/ \E r \in ticks : Buy(r)
    \/ \E r \in ticks : Sell(r)

SpecSwap == InitSwap /\ [][NextSwap]_vars

\* A SimulatedAdapterV2 on its own, constructed with or without a fee and
\* volatility, called as a bot would call it.
InitSim ==
    /\ last = FileRated
    /\ Constructed("simulated")
    /\ sim \in {Adapter(feeBps, Num(1000000), priceVolatility) :
                    feeBps \in {Zero, Num(60)}, priceVolatility \in {Zero, Dec(2, 1000)}}
    /\ quote = NoQuote /\ gate = NoGate
NextSim ==
    \/ \E solAmount \in SolAmounts : SimBuy(solAmount)
    \/ SimSell
    \/ PriceWalk
    \/ SolUsdFetched

SpecSim == InitSim /\ [][NextSim]_vars

\* The pricing functions on their own: an exit price asked for, then fed back.
InitMath ==
    /\ last = FileRated /\ Constructed("simulated")
    /\ sim = NoSim /\ quote \in Quotes /\ gate = NoGate
NextMath == ExitPrice \/ RealizedProfit

SpecMath == InitMath /\ [][NextMath]_vars

\* The path decision on its inputs.
InitGate ==
    /\ last = FileRated /\ Constructed("simulated")
    /\ sim = NoSim /\ quote = NoQuote /\ gate \in Gates
NextGate == Decide

SpecGate == InitGate /\ [][NextGate]_vars

\* The lookups of one job, each failing or returning.
InitFail ==
    /\ last = FileRated /\ Constructed("simulated")
    /\ sim = NoSim /\ quote = NoQuote /\ gate \in Asks
SpecFail == InitFail /\ [][LookUp]_vars

\* The auto-sell branch on its inputs.
InitDump ==
    /\ last = FileRated /\ Constructed("simulated")
    /\ sim = NoSim /\ quote \in Dumps /\ gate = NoGate

SpecDump == InitDump /\ [][AutoSell]_vars

\* ------------------------------------------------------------------ claims
\* The Signals an invocation holds: the job it awaits and the rest of its batch.
InBatch(r) == {r.job} \cup {e.job : e \in Range(r.jobs)}
Held == UNION {InBatch(r) : r \in ticks}

\* C1: in every reachable state the in-flight job count is at most the
\* concurrency cap, and so is the number of jobs being awaited.
C1_InFlightWithinCap == inFlight <= maxInFlight /\ Cardinality(ticks) <= maxInFlight

\* The cap is reached by two overlapping invocations while a backlog waits for
\* the ticks that follow.
C1_Witness == inFlight = maxInFlight /\ Cardinality(ticks) = maxInFlight /\ queue # <<>>

\* C2, as stated: a signature that reached the dedupe check at least twice has
\* exactly one Signal ever placed on the pending queue.
C2_ExactlyOneSignal == \A s \in Sigs : observed[s] >= 2 => enqueued[s] = 1

\* C2, amended: a Signal for s is enqueued only by the step that inserts s into
\* the SeenSet, one per insertion; while s stays in the SeenSet no frame enqueues
\* another one.
C2_OneSignalPerInsertion ==
    [][\A s \in Sigs :
          /\ enqueued'[s] \in {enqueued[s], enqueued[s] + 1}
          /\ enqueued'[s] # enqueued[s] =>
                (s \notin Range(seen) /\ s \in Range(seen'))]_vars

\* s was observed twice while in the SeenSet and has its one Signal; the stream
\* has closed since.
C2_Witness ==
    \E s \in Sigs : observed[s] = 2 /\ enqueued[s] = 1 /\ s \in Range(seen) /\ ~wsOpen

\* C3: a signature is dispatched to handleSignal at most once.
C3_DispatchedAtMostOnce == \A s \in Sigs : dispatched[s] <= 1

\* C4: within one drained batch jobs are admitted in non-increasing order of the
\* success rate their wallet had when the batch was sorted: the job admitted
\* last ranks no lower than any job still waiting, and those wait in order.
C4_AdmittedByRate ==
    \A r \in ticks :
        /\ \A k \in DOMAIN r.jobs : r.jobs[k].key <= r.lastKey
        /\ \A k \in DOMAIN r.jobs : \A m \in DOMAIN r.jobs :
              k < m => r.jobs[k].key >= r.jobs[m].key

\* The wallet with rate 8 is admitted before the one with rate 3, whose Signal
\* arrived first (signatures are numbered in arrival order).
C4_Witness ==
    \E r \in ticks :
        /\ r.lastKey = 8 /\ r.job.sig = 2
        /\ r.jobs # <<>> /\ r.jobs[1].key = 3 /\ r.jobs[1].job.sig = 1
        /\ enqueued[1] = 1 /\ enqueued[2] = 1

\* C5: of a drained batch, no more jobs are ever admitted than there were free
\* in-flight slots when it was drained; the rest is dropped.
C5_RemainderDropped == \A r \in ticks : r.quota >= 0

\* C6: when handleSignal throws for a job, its signature is in the executed-set
\* once the job has completed.
C6_ThrownIsExecuted ==
    [][\A r \in ticks :
          (r \notin ticks' /\ settled'.result = "throw") => r.job.sig \in executedMints']_vars

\* C7: a job that throws has appended no trade, its in-flight slot is released
\* (the counter again counts the awaited jobs only) and the cap still leaves the
\* scheduler the slot.
C7_ThrowRecordsNothing ==
    settled.result = "throw" =>
        /\ settled.recorded = 0
        /\ inFlight = Cardinality(ticks)
        /\ (ticks = {} => ~CapReached(inFlight))

\* A job threw while another one was in flight and a trade was on the ledger.
C7_Witness == settled.result = "throw" /\ ticks # {} /\ trades # <<>>

\* C8: the in-flight counter equals the number of jobs admitted and not yet
\* completed, and is never negative.
C8_InFlightCountsJobs == inFlight = Cardinality(ticks) /\ inFlight >= 0

\* A job has just completed, after a trade was recorded, while another job is
\* still in flight.
C8_Witness == settled.result \in {"ok", "skip", "throw"} /\ inFlight = 1 /\ nextId > 1

\* C9: after the stream message handler returns the SeenSet holds at most
\* seenMax signatures (each once).
C9_SeenBounded == Len(seen) <= seenMax /\ Cardinality(Range(seen)) = Len(seen)

\* The SeenSet is full and a signature inserted earlier has been evicted.
C9_Witness ==
    Len(seen) = seenMax /\ \E s \in Sigs : observed[s] > 0 /\ s \notin Range(seen)

\* C10: the drain is atomic with respect to ingestion.  A Signal enters a batch
\* only from the backlog, in a step of a tick that empties the backlog; a Signal
\* enqueued while batches are in progress joins none of them; and a Signal
\* leaves the backlog only by such a drain, into the batch or past the
\* executed-set check.
C10_AtomicDrain ==
    [][/\ \A x \in Held' :
             x \in Held \/ (x \in Range(queue) /\ queue' = <<>> /\ settled'.result = "none")
       /\ \A x \in Range(queue') : x \notin Range(queue) => ticks' = ticks
       /\ \A x \in Range(queue) :
             \/ x \in Range(queue')
             \/ /\ queue' = <<>>
                /\ settled'.result = "none"
                /\ (x \in Held' \/ x.sig \in executedMints)]_vars

\* A Signal waits in the backlog while an invocation still works on its batch.
C10_Witness == queue # <<>> /\ \E r \in ticks : r.jobs # <<>>

\* C11: jobs of one drained batch run concurrently up to the cap: no awaited job
\* keeps behind it, in its batch, a job of another signature that the loop would
\* admit at once (a slot is free and the signature is not executed).
C11_BatchRunsConcurrently ==
    \A r \in ticks :
        LET res == Loop(r.jobs, inFlight, executedMints)
        IN res.admit => Head(res.jobs).job.sig = r.job.sig

\* C12: a registry refresh leaves every job in flight alone, a job keeps the
\* rules it captured when it started, and its rule-dependent decisions (the
\* creator path, the size gate) are those of the captured rules, whatever the
\* registry holds when they are taken.
C12_CapturedRulesKept ==
    [][/\ tracked' # tracked => ticks' = ticks
       /\ \A r \in ticks : \A r2 \in ticks' :
             r2.job = r.job =>
                /\ r2.rules = r.rules
                /\ (r.pc = "lookups" /\ r2.pc = "creatorBuy") => r.rules.isCreator
                /\ (r.pc = "lookups" /\ r2.pc = "buy") => ~TooSmall(r.rules, r2.solUsd)]_vars

C12_Witness ==
    \E r \in ticks :
        /\ r.pc = "creatorBuy"
        /\ r.job.wallet \in DOMAIN tracked
        /\ ~tracked[r.job.wallet].isCreator

\* C13: a pending signal whose wallet is not in the registry when its batch is
\* dispatched is not executed: no such job gets past its start to a buy.
C13_DispatchFiltersMembership ==
    \A r \in ticks : ~r.member => r.pc = "lookups"

\* C14: the stream message handler inserts a signature into the SeenSet only
\* when it also emits a Signal for it: every step that changes the SeenSet adds
\* one Signal to the pending queue.
C14_SeenOnlyWithSignal ==
    [][seen' # seen => Len(queue') = Len(queue) + 1]_vars

\* C15: a malformed frame on the log stream is dropped silently: whenever the
\* handler can be called, a frame that does not parse leaves the SeenSet and the
\* pending queue as they are and the process running, so the next frame is
\* handled from the same state (the handler never touches the in-flight count).
C15_MalformedDropped ==
    (proc = "running" /\ wsOpen) =>
        \A frame \in Frames :
            ~frame.parsed =>
                /\ SeenAfter(frame) = seen
                /\ QueueAfter(frame) = queue
                /\ ProcAfter(frame) = "running"

C15_Witness ==
    /\ proc = "running"
    /\ wsOpen
    /\ seen # <<>>
    /\ queue # <<>>
    /\ \E frame \in Frames : Outcome(frame) = "malformed"

\* C16: after every stream close a reconnect is scheduled, and when a
\* connection opens exactly one subscribe request is sent for each wallet of the
\* registry as it is at that moment, none when it is empty.
C16_ReconnectResubscribes ==
    [][/\ (proc' = "running" /\ wsOpen /\ ~wsOpen') => "reconnect" \in timers'
       /\ (~wsOpen /\ wsOpen') =>
             /\ "reconnect" \notin timers'
             /\ DOMAIN sent' = DOMAIN tracked'
             /\ \A w \in DOMAIN tracked' : sent'[w] = 1]_vars

C16_Witness ==
    /\ opens = 2
    /\ wsOpen
    /\ DOMAIN sent = Wallets
    /\ \A w \in Wallets : sent[w] = 1

\* C17: on shutdown every timer (tick, latency ping, registry reload, pending
\* reconnect) has been stopped by the time the stream connection is closed.
C17_TimersStoppedBeforeClose ==
    proc = "exited" => atClose = {}

\* C18: no runtime error crashes the process: whatever frames the streams
\* deliver and whatever calls fail, the process runs until it is shut down.
C18_NeverCrashes ==
    proc # "crashed"

C20_LiveAdapterFails ==
    execution = "jito" =>
        /\ SellThrows(execution) = {TRUE}
        /\ \A r \in ticks : r.pc # "sell"
        /\ settled.bought => settled.result = "throw"
        /\ settled.result # "ok"
        /\ trades = <<>>

C20_Witness ==
    /\ execution = "jito"
    /\ settled.result = "throw"
    /\ settled.bought

\* C21: the k-th trade of the log has id k, whichever jobs recorded the trades
\* and in whatever order they ran: every step leaves the trades recorded so far
\* in place and unaltered, and numbers the log 1, 2, 3, ... without a gap.
C21_IdsSequential ==
    [][/\ Len(trades') >= Len(trades)
       /\ SubSeq(trades', 1, Len(trades)) = trades
       /\ \A k \in DOMAIN trades' : trades'[k].id = k]_vars

C21_Witness ==
    /\ Len(trades) >= 1
    /\ Cardinality(ticks) = 2
    /\ \A r \in ticks : r.pc \in {"sell", "creatorBuy"}

\* C22: for any recorded trade log, summary() returns the number of trades, the
\* sum of their costs and, as realized, the sum over the trades of proceeds less
\* cost.
C22_SummaryFoldsLog ==
    /\ Summary(trades).count = Len(trades)
    /\ Summary(trades).invested = SumCost(trades)
    /\ Summary(trades).realized =
          SumRealized([k \in DOMAIN trades |->
                          [trades[k] EXCEPT !.realizedUsd =
                                               trades[k].proceedsUsd - trades[k].costUsd]])

\* C23: every line of the wallets file read last that has the documented form
\* address,name,JSON-rules with several members in its JSON object has its
\* address in the registry with the rules that object parses to.
C23_RulesReachBot ==
    \A k \in DOMAIN last :
        LET line == last[k]
        IN (/\ Len(Split(line)) >= 3
            /\ JsonParse(RulesText(line)).ok
            /\ Len(RulesText(line)) > 3)
           => /\ Addr(line) \in DOMAIN tracked
              /\ tracked[Addr(line)] = JsonParse(RulesText(line)).value

\* C24: with no fee and no volatility, when a sell of exactly the size a buy of
\* a positive notional filled has returned and the price did not move in
\* between, the sell's proceeds are strictly less than the buy's cost.
C24_ImpactLosesMoney ==
    (/\ sim.pc = "sold"
     /\ sim.feeBps = Zero
     /\ sim.priceVolatility = Zero
     /\ ~sim.moved
     /\ Lt(Zero, sim.buy.costUsd)
     /\ sim.sell.sizeTokens = sim.buy.sizeTokens)
    => Lt(sim.sell.proceedsUsd, sim.buy.costUsd)

\* C25: when the exit price computed for a target has been fed back into
\* realizedProfitUsd with no entry fee and with the exit term equivalent to the
\* fee and slippage the price was computed for, the realized profit is the
\* target to within 1e-9 USD.
C25_RoundTrip ==
    (/\ quote.pc = "realized"
     /\ quote.feeBpsEntry = Zero
     /\ quote.feeBpsExit = EquivalentBps(quote.feeBps, quote.exitSlipBps))
    => ~Lt(Dec(1, 1000000000), Abs(Sub(quote.realized, quote.targetUsd)))

\* The example of the specification, entry 0.001, size 10000, fee 60 bps,
\* slippage 200 bps, target 7.5, after its round trip.
C25_Witness ==
    /\ quote.pc = "realized"
    /\ quote.entryUsd = Dec(1, 1000)
    /\ quote.sizeTokens = Num(10000)
    /\ quote.feeBps = Num(60)
    /\ quote.exitSlipBps = Num(200)
    /\ quote.targetUsd = Dec(15, 2)
    /\ quote.feeBpsEntry = Zero
    /\ quote.feeBpsExit = EquivalentBps(quote.feeBps, quote.exitSlipBps)

\* C26: a step of the tick callback taken while the in-flight count is at or
\* above the cap leaves the pending queue, the executed set, the in-flight
\* count and the suspended invocations as they were.
C26_TickAtCapDoesNothing ==
    [][(inFlight >= maxInFlight /\ Tick)
          => /\ queue' = queue
             /\ executedMints' = executedMints
             /\ inFlight' = inFlight
             /\ ticks' = ticks]_vars

\* The timer can fire at the cap with a backlog pending, while one of the
\* invocations holding the cap is suspended between its buy and its sell.
C26_Witness ==
    /\ inFlight >= maxInFlight
    /\ queue # <<>>
    /\ proc = "running"
    /\ "worker" \in timers
    /\ \E r \in ticks : r.pc = "sell"

\* C27: in the batch a tick would sort from the pending queue, a signal whose
\* wallet is absent from the registry or has rules without a success_rate
\* carries the key 0 and stands behind every signal with a positive key; the
\* batch holds every pending signal, none is left out; and an invocation that
\* was admitted for an absent wallet was admitted with the key 0, ahead of
\* nothing that has a larger key.
C27_NoRuleDataSortsLast ==
    LET batch == TakeBatch(queue, tracked)
        NoData(w) == w \notin DOMAIN tracked \/ tracked[w].success_rate = 0
    IN /\ Len(batch) = Len(queue)
       /\ \A k \in DOMAIN queue : \E i \in DOMAIN batch : batch[i].job = queue[k]
       /\ \A j \in DOMAIN batch :
             NoData(batch[j].job.wallet)
                => /\ batch[j].key = 0
                   /\ \A i \in DOMAIN batch : batch[i].key > 0 => i < j
       /\ \A r \in ticks :
             ~r.member => /\ r.lastKey = 0
                          /\ \A k \in DOMAIN r.jobs : r.jobs[k].key <= 0

\* An invocation admitted for w1 with the key 0 while w1 is absent from the
\* registry, after the job of another signature was dispatched and ran to its
\* end.
C27_Witness ==
    \E r \in ticks :
        /\ ~r.member
        /\ r.job.wallet = "w1"
        /\ r.lastKey = 0
        /\ \E s \in Sigs : s # r.job.sig /\ dispatched[s] >= 1 /\ s \in executedMints

\* C28: the step of a tick that drains the queue admits by the rates of the
\* registry as it is at that step: the admitted job's key and the keys of the
\* jobs waiting behind it in the batch are their wallets' success rates in the
\* current registry, and none behind has a larger key.  A reload that exchanges
\* the rates of w1 and w2 while a signal of each is pending exchanges the order
\* in which the next tick would take the two.
C28_PriorityAtDrain ==
    [][/\ (queue # <<>> /\ queue' = <<>>)
          => \A r \in ticks' \ ticks :
                /\ r.lastKey = SuccessRate(tracked, r.job.wallet)
                /\ \A k \in DOMAIN r.jobs :
                      /\ r.jobs[k].key = SuccessRate(tracked, r.jobs[k].job.wallet)
                      /\ r.jobs[k].key <= r.lastKey
       /\ (/\ Len(queue) = 2 /\ queue' = queue
           /\ queue[1].wallet # queue[2].wallet
           /\ SuccessRate(tracked', "w1") = SuccessRate(tracked, "w2")
           /\ SuccessRate(tracked', "w2") = SuccessRate(tracked, "w1")
           /\ SuccessRate(tracked, "w1") # SuccessRate(tracked, "w2"))
          => /\ TakeBatch(queue, tracked')[1].job = TakeBatch(queue, tracked)[2].job
             /\ TakeBatch(queue, tracked')[2].job = TakeBatch(queue, tracked)[1].job]_vars

\* After a reload that exchanged the rates, a tick admitted the signal of w1
\* with the key 8 and holds the signal of w2 behind it with the key 3; the bot
\* had started with w1 rated 3 and w2 rated 8.
C28_Witness ==
    /\ last = FileSwapped
    /\ \E r \in ticks :
          /\ r.job.wallet = "w1" /\ r.lastKey = 8
          /\ r.jobs # <<>>
          /\ r.jobs[1].job.wallet = "w2" /\ r.jobs[1].key = 3

\* C29: a job reaches its sell only from its buy, by the step in which the buy
\* returned; the step that ends a job at its sell with the sell returned appends
\* exactly one trade, of side scalp, whose realizedUsd is its proceedsUsd less
\* its costUsd, and is the only trade the job records; when the sell threw the
\* step appends nothing; and no other step appends a scalp trade.
C29_BuySellRecord ==
    [][/\ \A r \in ticks' :
             r.pc = "sell" => \/ r \in ticks
                              \/ /\ [r EXCEPT !.pc = "buy"] \in ticks
                                 /\ trades' = trades
       /\ \A r \in ticks :
             (r.pc = "sell" /\ r \notin ticks')
                => IF settled'.result = "ok"
                   THEN /\ Len(trades') = Len(trades) + 1
                        /\ SubSeq(trades', 1, Len(trades)) = trades
                        /\ trades'[Len(trades')].side = "scalp"
                        /\ trades'[Len(trades')].realizedUsd =
                              trades'[Len(trades')].proceedsUsd - trades'[Len(trades')].costUsd
                        /\ settled'.recorded = 1
                   ELSE trades' = trades /\ settled'.recorded = 0
       /\ (Len(trades') > Len(trades) /\ trades'[Len(trades')].side = "scalp")
             => \E r \in ticks : r.pc = "sell" /\ r \notin ticks' /\ settled'.result = "ok"]_vars

\* A job whose sell returned has just ended with its one trade on the ledger:
\* a scalp with a cost, proceeds above it and the difference as realized.
C29_Witness ==
    /\ settled.result = "ok" /\ settled.recorded = 1 /\ settled.bought
    /\ trades # <<>>
    /\ trades[Len(trades)].side = "scalp"
    /\ trades[Len(trades)].costUsd > 0
    /\ trades[Len(trades)].realizedUsd > 0
    /\ trades[Len(trades)].realizedUsd < trades[Len(trades)].proceedsUsd

\* C30: the job of a wallet flagged as creator that passed the balance gate
\* with a transaction that is a token-creation event is on the creator path:
\* its next call is the creator buy, after which it records the creator trade
\* and returns; it is not on the path that buys and sells.
C30_CreatorLaunchTakesCreatorPath ==
    (/\ gate.pc = "decided"
     /\ gate.rules.isCreator
     /\ gate.found.enough
     /\ gate.found.isCreateTx)
    => gate.path = "creatorBuy"

\* C31: while a job is at its take-profit sell, what its exit price nets after
\* the exit fee and the slippage is the entry cost times the take-profit
\* multiple (capped at 2.0), and so no more than twice the entry cost.
C31_ExitNetsCappedMultiple ==
    \A r \in ticks :
        r.pc = "sell"
           => LET yourBuyUsd == Notional(JobRules(r), r.solUsd)
                  costUsd == BuyCost(yourBuyUsd, r.solUsd)
              IN /\ NeededUsd(costUsd, yourBuyUsd) = TargetTotalUsd(costUsd, yourBuyUsd)
                 /\ NeededUsd(costUsd, yourBuyUsd) <= 2 * costUsd

\* C32: in the auto-sell branch the price per token handed to the sell call as
\* targetExitUsd is strictly below the mark price, whatever size the buy filled.
C32_DumpExitBelowMark ==
    quote.pc = "dumping" => Lt(quote.targetExitUsd, quote.markUsd)

\* C33: a step in which the loader delivers a new registry replaces the
\* tracked-wallet map by the map of the file just read and leaves the socket as
\* it is; with the stream open it sends one subscribe request for each wallet of
\* the new map and no other, with the stream not open it sends nothing.
C33_RefreshResubscribesIfOpen ==
    [][(last' # last)
          => /\ tracked' = LoadMap(last')
             /\ wsOpen' = wsOpen
             /\ IF wsOpen
                THEN /\ DOMAIN sent' = DOMAIN tracked'
                     /\ \A w \in DOMAIN tracked' : sent'[w] = 1
                ELSE sent' = sent]_vars

\* The stream opened once and is still open, a signal of w2 was enqueued while
\* the registry held w2, and the registry then changed to the documented file,
\* which lists w1 only: the one request of the last round is w1's.
C33_Witness ==
    /\ opens = 1 /\ wsOpen
    /\ last = FileDocumented
    /\ \E k \in DOMAIN queue : queue[k].wallet = "w2"
    /\ DOMAIN sent = {"w1"} /\ sent["w1"] = 1

C35_CallsLeavePrice ==
    [][/\ sim'.pc # sim.pc => sim'.tokenPriceUsd = sim.tokenPriceUsd
       /\ sim'.tokenPriceUsd # sim.tokenPriceUsd => sim'.walks = sim.walks + 1
       /\ (/\ sim.pc = "sold" /\ sim'.pc = "bought"
           /\ ~sim.moved
           /\ sim'.buy.costUsd = sim.buy.costUsd)
             => sim'.buy = sim.buy]_vars

\* A buy and a sale of what it filled have returned before the walker's first
\* tick, and the price is the one the adapter was constructed with.
C35_Witness ==
    /\ sim.pc = "sold"
    /\ sim.walks = 0
    /\ sim.sell.sizeTokens = sim.buy.sizeTokens
    /\ Lt(Zero, sim.sell.proceedsUsd)
    /\ sim.tokenPriceUsd = initTokenPriceUsd

\* C36: a job whose balance, SOL price, token price or market-cap lookup
\* failed has that lookup's default (0, 25 dollars, 0.001 dollars, 0) where the
\* value is read next, and goes on from there: a failed balance lookup ends the
\* job at the balance gate, a failed SOL price lookup sizes the buy with 25
\* dollars, a failed market-cap lookup passes the market-cap gate, a failed
\* token price lookup gives the buy a mark of 0.001; the job's path is the one
\* the gates pick for these values.
C36_FailedLookupYieldsDefault ==
    gate.pc = "looked"
       => /\ ~gate.balance.ok => (~gate.found.enough /\ gate.path = "skip")
          /\ ~gate.solUsd.ok => gate.found.solUsd = 2500
          /\ ~gate.marketCap.ok => ~gate.found.capTooHigh
          /\ ~gate.price.ok => gate.mark = 1
          /\ gate.path \in {"skip", "creatorBuy", "buy"}
          /\ gate.path
                = Path(gate.rules,
                       Found(gate.balance.ok /\ gate.balance.value - 15 * maxInFlight >= requiredSol,
                             gate.isCreateTx, gate.tokenMint,
                             IF gate.solUsd.ok /\ gate.solUsd.value # 0
                             THEN gate.solUsd.value ELSE 2500,
                             gate.marketCap.ok /\ gate.marketCap.value > 1000000))

\* The balance came back and covers the requirement, the other three lookups
\* failed, and the job is at its buy with the 25 dollar SOL price.
C36_Witness ==
    /\ gate.pc = "looked"
    /\ gate.balance.ok /\ ~gate.solUsd.ok /\ ~gate.price.ok /\ ~gate.marketCap.ok
    /\ gate.path = "buy"
    /\ gate.found.solUsd = 2500
    /\ gate.mark = 1

\* C37: a step in which the message handler takes a notification of a failed
\* transaction (its result carries an err) leaves the SeenSet and the pending
\* queue as they were.
C37_FailedTransactionDropped ==
    [][\A frame \in FailedFrames :
          OnMessage(frame) => (seen' = seen /\ queue' = queue)]_vars

\* C38: the log stream's sockets not yet closed and its reconnect timers not
\* yet fired never number more than one together, and exactly one while the
\* bot runs: there is a socket or a reconnect pending, never both and never
\* two of either; an open stream is the one socket, and the reconnect timer is
\* set exactly while the one reconnect is pending.
C38_OneConnection ==
    /\ link.sockets + link.reconnects <= 1
    /\ proc = "running" => link.sockets + link.reconnects = 1
    /\ wsOpen => link.sockets = 1
    /\ "reconnect" \in timers <=> link.reconnects = 1

\* The stream is open for the second time, after a close, the reconnect and a
\* registry refresh, and it is the only socket.
C38_Witness ==
    /\ opens = 2 /\ wsOpen
    /\ last \notin Files
    /\ link = [sockets |-> 1, reconnects |-> 0]

\* C39: with the scheduler callback called again and again and every job's
\* awaits settling, a signature that is on the pending queue is later not on
\* it, and from some point on, when the stream has delivered its last
\* notification, no job is in flight and the queue is empty.
C39_QueueDrainsJobsSettle ==
    /\ \A s \in Sigs :
          (\E k \in DOMAIN queue : queue[k].sig = s)
             ~> ~(\E k \in DOMAIN queue : queue[k].sig = s)
    /\ <>[](inFlight = 0 /\ ticks = {} /\ queue = <<>>)

\* Every notification the stream delivers has been handled, a signal went
\* through a job that settled, and nothing is pending or in flight.
C39_Witness ==
    /\ Observations = MaxObserved
    /\ executedMints # {}
    /\ inFlight = 0 /\ ticks = {} /\ queue = <<>>

====
